---- MODULE Spec2Model ----
(***************************************************************************)
(* Cinema Seat Reservation UI (src/ui.py): the external-process invocation *)
(* protocol of call_logic and the seat-selection state machine of          *)
(* CinemaUI.                                                               *)
(*                                                                         *)
(* The UI is single-threaded: one handler runs at a time.  A handler that  *)
(* calls call_logic blocks in it; the model follows call_logic attempt by  *)
(* attempt (pc = "launch", "communicate"), stops once at its return or     *)
(* raise (pc = "return") and then runs the rest of the handler in one      *)
(* step.  The reservation authority (the CinemaLogic program) is not part  *)
(* of src/: it is modelled from the protocol of the specification.         *)
(* Responses are JSON objects; the grid is scaled down from 6 x 10.        *)
(*                                                                         *)
(* Three specifications share the actions of call_logic.  SpecCall is one  *)
(* call of call_logic for every kind of request and path, with last_err    *)
(* and the history of attempts kept (keepLog = TRUE).  Spec is the whole   *)
(* UI; there the entries of last_err are not kept (keepLog = FALSE): no    *)
(* handler reads them, they only reach the text of an error dialog.        *)
(* SpecResolve is the first call of the UI for a larger set of paths.      *)
(***************************************************************************)
EXTENDS Integers, Sequences, FiniteSets, TLC

\* ---------------------------------------------------------------- bounds
MaxRows == 1
MaxCols == 2

DEFAULT_ROWS == MaxRows
DEFAULT_COLS == MaxCols

AllSeats == (1..MaxRows) \X (1..MaxCols)

Grid(r, c) == (1..r) \X (1..c)

\* ------------------------------------------------------- paths as text
DOTNET == <<"d", "o", "t", "n", "e", "t">>
DOTNET_ABS == <<"C", ":", "/", "d", "o", "t", "n", "e", "t", ".", "e", "x", "e">>
EXT_DLL == <<".", "d", "l", "l">>
EXT_EXE == <<".", "e", "x", "e">>

LogicPaths ==
    { <<"a", ".", "d", "l", "l">>,
      <<"a", ".", "D", "l", "L">>,
      <<"a", ".", "e", "x", "e">>,
      <<"a">> }

LowerChar(ch) ==
    CASE ch = "D" -> "d"
      [] ch = "L" -> "l"
      [] ch = "E" -> "e"
      [] ch = "X" -> "x"
      [] ch = "A" -> "a"
      [] OTHER -> ch

\* variant: the comparison of extensions is case-sensitive
LowerNot(s) == s

Lower(s) == [i \in 1..Len(s) |-> LowerChar(s[i])]

EndsWith(s, suf) ==
    /\ Len(s) >= Len(suf)
    /\ SubSeq(s, Len(s) - Len(suf) + 1, Len(s)) = suf

\* pathlib: the text from the last dot of the name, unless that dot is the
\* first or the last character of the name
Suffix(p) ==
    LET dots == {i \in 1..Len(p) : p[i] = "."}
    IN  IF dots = {} THEN <<>>
        ELSE LET i == CHOOSE k \in dots : \A j \in dots : j <= k
             IN  IF i > 1 /\ i < Len(p) THEN SubSeq(p, i, Len(p)) ELSE <<>>

\* ---------------------------------------------------- candidate resolver
\* variant: no fallback when neither rule matched
CandidatesNoFallback(p, exists) ==
    LET isDll == EndsWith(Lower(p), EXT_DLL) \/ (exists /\ Lower(Suffix(p)) = EXT_DLL)
        c1 == IF isDll THEN << <<DOTNET, p>>, <<DOTNET_ABS, p>> >> ELSE <<>>
    IN  IF exists /\ Lower(Suffix(p)) = EXT_EXE THEN Append(c1, <<p>>) ELSE c1

Candidates(p, exists) ==
    LET isDll == EndsWith(Lower(p), EXT_DLL) \/ (exists /\ Lower(Suffix(p)) = EXT_DLL)
        c1 == IF isDll THEN << <<DOTNET, p>>, <<DOTNET_ABS, p>> >> ELSE <<>>
        c2 == IF exists /\ Lower(Suffix(p)) = EXT_EXE THEN Append(c1, <<p>>) ELSE c1
    IN  IF c2 # <<>> THEN c2
        ELSE IF EndsWith(Lower(p), EXT_DLL)
             THEN << <<DOTNET, p>>, <<DOTNET_ABS, p>> >>
             ELSE << <<p>>, <<DOTNET, p>> >>

\* ------------------------------------------------------------ seats
SeatLess(a, b) == a[1] < b[1] \/ (a[1] = b[1] /\ a[2] < b[2])

RECURSIVE SortSeats(_)
SortSeats(S) ==
    IF S = {} THEN <<>>
    ELSE LET m == CHOOSE x \in S : \A y \in S : y = x \/ SeatLess(x, y)
         IN  <<m>> \o SortSeats(S \ {m})

Range(s) == {s[i] : i \in 1..Len(s)}

\* ------------------------------------------------------------ state
VARIABLES
    logic_path, path_exists,          \* self.logic_path and whether the file exists
    rows, cols, buttons, selected, reserved_set,   \* CinemaUI fields
    pc, handler, stage, dialogs,      \* position of the UI thread, dialogs shown
    payload, ci, mode, last_err,      \* call_logic locals
    attempts, children, result,       \* attempts made, live children, outcome
    calls,                            \* the requests this handler has passed to call_logic
    keepLog,                          \* whether last_err and attempts keep their entries
    authRows, authCols, authReserved  \* the reservation authority

envVars == <<logic_path, path_exists, keepLog>>
uiVars == <<rows, cols, buttons, selected, reserved_set>>
callVars == <<payload, ci, mode, last_err, attempts, children, result>>
authVars == <<authRows, authCols, authReserved>>
vars == <<envVars, uiVars, pc, handler, stage, dialogs, callVars, calls, authVars>>

Clients == {"Ada", "None"}

\* ---------------------------------------------------------- requests
NoPayload == [action |-> "none", rows |-> 0, cols |-> 0, seats |-> <<>>, client |-> "None"]

GetLayoutPayload(r, c) ==
    [action |-> "get_layout", rows |-> r, cols |-> c, seats |-> <<>>, client |-> "None"]

ReservePayload(seats_dto, client) ==
    [action |-> "reserve", rows |-> 0, cols |-> 0, seats |-> seats_dto, client |-> client]

DeletePayload(seats_dto) ==
    [action |-> "delete_reservations", rows |-> 0, cols |-> 0, seats |-> seats_dto,
     client |-> "None"]

ListPayload ==
    [action |-> "list_reservations", rows |-> 0, cols |-> 0, seats |-> <<>>, client |-> "None"]

\* ---------------------------------------------------------- responses
MkResp(status, layout, malformed, r, c, seats) ==
    [status |-> status, layout |-> layout, malformed |-> malformed,
     rows |-> r, cols |-> c, seats |-> seats]

NoResp == MkResp("none", "none", FALSE, 0, 0, {})

ErrorResp(failed) == MkResp("error", "none", FALSE, 0, 0, failed)

\* how call_logic ended: the response it returned, or the error it raised with
\* the lines and the raw output its message holds
NoResult ==
    [kind |-> "none", exc |-> "none", resp |-> NoResp, lines |-> <<>>, raw |-> <<>>]

Returned(resp) ==
    [kind |-> "return", exc |-> "none", resp |-> resp, lines |-> <<>>, raw |-> <<>>]

Raised(exc, lines, raw) ==
    [kind |-> "raise", exc |-> exc, resp |-> NoResp, lines |-> lines, raw |-> raw]

\* ---------------------------------------------- the authority (protocol)
AuthGrid == Grid(authRows, authCols)

\* what the authority may answer to a request, and the reserved set it then holds
AuthAnswers(pl) ==
    LET req == Range(pl.seats)
        fault == [resp |-> ErrorResp({}), reserved |-> authReserved]
    IN  {fault} \cup
        CASE pl.action = "get_layout" ->
                { [resp |-> MkResp("ok", "dims", m, authRows, authCols, authReserved),
                   reserved |-> authReserved] : m \in BOOLEAN }
                \cup
                { [resp |-> MkResp("ok", "nodims", FALSE, 0, 0, authReserved),
                   reserved |-> authReserved],
                  [resp |-> MkResp("ok", "none", FALSE, 0, 0, {}),
                   reserved |-> authReserved] }
          [] pl.action = "reserve" ->
                IF req \subseteq AuthGrid /\ req \cap authReserved = {}
                THEN { [resp |-> MkResp("ok", "none", FALSE, 0, 0, req),
                        reserved |-> authReserved \cup req] }
                ELSE { [resp |-> ErrorResp((req \cap authReserved) \cup (req \ AuthGrid)),
                        reserved |-> authReserved] }
          [] pl.action = "delete_reservations" ->
                IF req \subseteq authReserved
                THEN { [resp |-> MkResp("ok", "none", FALSE, 0, 0, {}),
                        reserved |-> authReserved \ req] }
                ELSE { [resp |-> ErrorResp({}), reserved |-> authReserved] }
          [] OTHER ->
                { [resp |-> MkResp("ok", "none", FALSE, 0, 0, authReserved),
                   reserved |-> authReserved] }

\* a launched process that gave no usable answer may or may not have acted
AuthEffects(pl) == {a.reserved : a \in AuthAnswers(pl)}

\* ------------------------------------------------------------ call_logic
Cands == Candidates(logic_path, path_exists)

Cmd == Cands[ci]

\* a bare [path] command starts only when the file is there
CanLaunch(cmd) == Len(cmd) > 1 \/ path_exists

\* last_err.append(x); with keepLog off the list stays empty (no handler reads it)
Log(list, x) == IF keepLog THEN Append(list, x) ELSE list

Diag(kind) == [kind |-> kind, cand |-> ci, mode |-> mode]

\* one trial of a command in a mode: how it ended and what the child wrote
Attempt(outcome, out, stderr) ==
    [cand |-> ci, mode |-> mode, outcome |-> outcome, out |-> out, stderr |-> stderr]

\* what a child may write to its standard output, as tokens
Stdouts == { <<>>, <<" ">>, <<" ", "not json", " ">>, <<"{}", " ">> }

IsSpace(t) == t = " "

RECURSIVE Strip(_)
Strip(out) ==
    IF out = <<>> THEN out
    ELSE IF IsSpace(Head(out)) THEN Strip(Tail(out))
    ELSE IF IsSpace(out[Len(out)]) THEN Strip(SubSeq(out, 1, Len(out) - 1))
    ELSE out

\* variant: output that does not parse counts as no output
UsableOnlyIfJson(out) == out # <<>> /\ Strip(out) = <<"{}">>

\* "if stdout and stdout.strip()"
Usable(out) == out # <<>> /\ Strip(out) # <<>>

\* json.loads succeeds
ParsesAsJson(text) == text = <<"{}">>

\* variant: the loop does not move on to the next candidate
NextAttemptSameCandidate(i, m, n) ==
    IF m = "stdin" THEN [ci |-> i, mode |-> "arg", more |-> TRUE]
    ELSE IF i < n THEN [ci |-> i, mode |-> "stdin", more |-> TRUE]
    ELSE [ci |-> i, mode |-> m, more |-> FALSE]

\* variant: the argument mode is never tried
NextAttemptSkipsArg(i, m, n) ==
    IF i < n THEN [ci |-> i + 1, mode |-> "stdin", more |-> TRUE]
    ELSE [ci |-> i, mode |-> m, more |-> FALSE]

\* the position after an attempt that gave no usable output: the other mode of
\* the same candidate, then the next candidate, then none
NextAttempt(i, m, n) ==
    IF m = "stdin" THEN [ci |-> i, mode |-> "arg", more |-> TRUE]
    ELSE IF i < n THEN [ci |-> i + 1, mode |-> "stdin", more |-> TRUE]
    ELSE [ci |-> i, mode |-> m, more |-> FALSE]

\* variant: only the last diagnostic reaches the message
ExhaustedErrorLastOnly(errs) ==
    Raised("RuntimeError: No valid response from logic program",
           IF errs = <<>> THEN errs ELSE <<errs[Len(errs)]>>, <<>>)

ExhaustedError(errs) ==
    Raised("RuntimeError: No valid response from logic program", errs, <<>>)

ParseError(out) ==
    Raised("RuntimeError: Failed to parse JSON", <<Diag("Failed to parse JSON")>>, out)

Proceed(errs) ==
    LET nx == NextAttempt(ci, mode, Len(Cands))
    IN  /\ last_err' = errs
        /\ ci' = nx.ci
        /\ mode' = nx.mode
        /\ IF nx.more
           THEN pc' = "launch" /\ result' = NoResult
           ELSE pc' = "return" /\ result' = ExhaustedError(errs)

StartCall(pl, earlier) ==
    /\ payload' = pl
    /\ ci' = 1
    /\ mode' = "stdin"
    /\ last_err' = <<>>
    /\ attempts' = <<>>
    /\ children' = {}
    /\ result' = NoResult
    /\ calls' = Append(earlier, pl.action)
    /\ pc' = "launch"

EndCall ==
    /\ payload' = NoPayload
    /\ ci' = 0
    /\ mode' = "none"
    /\ last_err' = <<>>
    /\ attempts' = <<>>
    /\ children' = {}
    /\ result' = NoResult
    /\ pc' = "idle"

\* variant: what the child wrote to its standard error is dropped
WithStderrDropped(errs, stderr) == errs

\* "if stderr and stderr.strip()": the text becomes one diagnostic line
WithStderr(errs, stderr) ==
    IF stderr THEN Log(errs, Diag("produced stderr")) ELSE errs

\* subprocess.Popen of the current command in the current mode
Launch ==
    /\ pc = "launch"
    /\ \E o \in {"notfound", "failed", "started"} :
        IF o = "started"
        THEN /\ CanLaunch(Cmd)
             /\ children' = children \cup {<<ci, mode>>}
             /\ pc' = "communicate"
             /\ UNCHANGED <<payload, ci, mode, last_err, attempts, result>>
        ELSE /\ attempts' = Log(attempts, Attempt(o, <<>>, FALSE))
             /\ Proceed(Log(last_err,
                 Diag(IF o = "notfound" THEN "Command not found" ELSE "Failed to start")))
             /\ UNCHANGED <<payload, children>>
    /\ UNCHANGED <<envVars, uiVars, handler, stage, dialogs, calls, authVars>>

\* proc.communicate with the timeout, then the tests on stderr and stdout
Communicate ==
    /\ pc = "communicate"
    /\ \/ /\ attempts' = Log(attempts, Attempt("timeout", <<>>, FALSE))
          /\ children' = children \ {<<ci, mode>>}
          /\ Proceed(Log(last_err, Diag("Timeout when running")))
          /\ authReserved' \in AuthEffects(payload)
       \/ /\ attempts' = Log(attempts, Attempt("broken", <<>>, FALSE))
          /\ children' = children
          /\ Proceed(Log(last_err, Diag("Failed to start")))
          /\ authReserved' \in AuthEffects(payload)
       \/ \E out \in Stdouts, stderr \in BOOLEAN :
            LET errs == WithStderr(last_err, stderr)
            IN  /\ children' = children \ {<<ci, mode>>}
                /\ IF ~Usable(out)
                   THEN /\ attempts' = Log(attempts, Attempt("exited", out, stderr))
                        /\ Proceed(errs)
                        /\ authReserved' \in AuthEffects(payload)
                   ELSE IF ParsesAsJson(Strip(out))
                   THEN /\ attempts' = Log(attempts, Attempt("exited", out, stderr))
                        /\ \E a \in AuthAnswers(payload) :
                             /\ result' = Returned(a.resp)
                             /\ authReserved' = a.reserved
                        /\ last_err' = errs
                        /\ pc' = "return"
                        /\ UNCHANGED <<ci, mode>>
                   ELSE /\ attempts' = Log(attempts, Attempt("exited", out, stderr))
                        /\ result' = ParseError(out)
                        /\ authReserved' \in AuthEffects(payload)
                        /\ last_err' = errs
                        /\ pc' = "return"
                        /\ UNCHANGED <<ci, mode>>
    /\ UNCHANGED <<envVars, uiVars, handler, stage, dialogs, calls, payload,
                   authRows, authCols>>

\* ------------------------------------------------------------ CinemaUI
Dialog(fn, title, seats) == [fn |-> fn, title |-> title, seats |-> seats]

\* a handler starts: Tk runs one callback at a time
Begin(h) ==
    /\ pc = "idle"
    /\ handler' = h

\* variant: a click never deselects
ToggleSetAddOnly(sel, key) == sel \cup {key}

\* toggle_select: the selection after a click on the button of seat key
ToggleSet(sel, key) == IF key \in sel THEN sel \ {key} ELSE sel \cup {key}

toggle_select(r, c) ==
    /\ Begin("toggle_select")
    /\ <<r, c>> \in buttons
    /\ selected' = ToggleSet(selected, <<r, c>>)
    /\ stage' = "done"
    /\ dialogs' = <<>>
    /\ calls' = <<>>
    /\ UNCHANGED <<envVars, rows, cols, buttons, reserved_set, pc, callVars, authVars>>

Toggle == \E r \in 1..MaxRows, c \in 1..MaxCols : toggle_select(r, c)

\* variant: clearing the selection also empties reserved_set
clear_selection_forgets_reserved ==
    /\ Begin("clear_selection")
    /\ selected' = {}
    /\ reserved_set' = {}
    /\ stage' = "done"
    /\ dialogs' = <<>>
    /\ calls' = <<>>
    /\ UNCHANGED <<envVars, rows, cols, buttons, pc, callVars, authVars>>

clear_selection ==
    /\ Begin("clear_selection")
    /\ selected' = {}
    /\ stage' = "done"
    /\ dialogs' = <<>>
    /\ calls' = <<>>
    /\ UNCHANGED <<envVars, rows, cols, buttons, reserved_set, pc, callVars, authVars>>

\* variant: the new list is added to the old set
ReservedSetMerged(resp) == reserved_set \cup resp.seats

\* set((s["row"], s["col"]) for s in reserved)
ReservedSetOf(resp) == resp.seats

\* variant: the selection survives a refresh
SelectionKept(sel) == sel

\* self.selected = set()
SelectionAfterRefresh(sel) == {}

\* refresh_layout after its call_logic: whether it raised, and the fields it leaves
RefreshLayout(res) ==
    LET resp == res.resp
        same == [raised |-> TRUE, rows |-> rows, cols |-> cols, buttons |-> buttons,
                 reserved_set |-> reserved_set, selected |-> selected]
    IN  IF res.kind = "raise" THEN same
        ELSE IF resp.status # "ok" THEN same
        ELSE IF resp.layout = "none" THEN same
        ELSE LET r == IF resp.layout = "dims" THEN resp.rows ELSE rows
                 c == IF resp.layout = "dims" THEN resp.cols ELSE cols
             IN  IF resp.malformed
                 THEN [raised |-> TRUE, rows |-> r, cols |-> c, buttons |-> Grid(r, c),
                       reserved_set |-> reserved_set, selected |-> selected]
                 ELSE [raised |-> FALSE, rows |-> r, cols |-> c, buttons |-> Grid(r, c),
                       reserved_set |-> ReservedSetOf(resp),
                       selected |-> SelectionAfterRefresh(selected)]

\* variant: on_reserve and on_delete never warn
RefreshFailureSilent(h, st) ==
    IF h = "__init__" THEN <<Dialog("showerror", "Startup error", {})>> ELSE <<>>

\* what the caller of refresh_layout shows when refresh_layout raised
RefreshFailureDialogs(h, st) ==
    IF h = "__init__" THEN <<Dialog("showerror", "Startup error", {})>>
    ELSE IF st = "refresh_ok" THEN <<Dialog("showwarning", "Warning", {})>>
    ELSE <<>>

\* the Refresh button: command=self.refresh_layout
RefreshButton ==
    /\ Begin("refresh_layout")
    /\ stage' = "refresh"
    /\ dialogs' = <<>>
    /\ StartCall(GetLayoutPayload(rows, cols), <<>>)
    /\ UNCHANGED <<envVars, uiVars, authVars>>

\* refresh_layout returns or raises to __init__, Tk, on_reserve or on_delete
RefreshReturn ==
    /\ pc = "return"
    /\ stage \in {"refresh", "refresh_ok", "refresh_failed"}
    /\ LET e == RefreshLayout(result)
       IN  /\ rows' = e.rows
           /\ cols' = e.cols
           /\ buttons' = e.buttons
           /\ reserved_set' = e.reserved_set
           /\ selected' = e.selected
           /\ dialogs' = IF e.raised
                         THEN dialogs \o RefreshFailureDialogs(handler, stage)
                         ELSE dialogs
           /\ stage' = IF e.raised /\ handler = "refresh_layout" THEN "uncaught" ELSE "done"
    /\ EndCall
    /\ UNCHANGED <<envVars, handler, calls, authVars>>

\* variant: seats already reserved are left out of the request
ReserveSeatsFreeOnly(sel, res) == sel \ res

\* the seats on_reserve puts in the request
ReserveSeats(sel, res) == sel

\* variant: a refresh follows a raise of call_logic too
NextStageRefreshAfterRaise(res) ==
    IF res.kind = "return" /\ res.resp.status = "ok" THEN "refresh_ok" ELSE "refresh_failed"

\* variant: no refresh after a non-"ok" response
NextStageRefreshOnlyAfterOk(res) ==
    IF res.kind = "return" /\ res.resp.status = "ok" THEN "refresh_ok" ELSE "done"

\* where on_reserve and on_delete go once call_logic has returned or raised
NextStage(res) ==
    IF res.kind = "raise" THEN "done"
    ELSE IF res.resp.status = "ok" THEN "refresh_ok"
    ELSE "refresh_failed"

on_reserve ==
    /\ Begin("on_reserve")
    /\ IF selected = {}
       THEN /\ dialogs' = <<Dialog("showinfo", "No selection", {})>>
            /\ stage' = "done"
            /\ calls' = <<>>
            /\ UNCHANGED <<pc, callVars>>
       ELSE /\ dialogs' = <<>>
            /\ stage' = "request"
            /\ \E client \in Clients :
                 StartCall(ReservePayload(SortSeats(ReserveSeats(selected, reserved_set)),
                                          client), <<>>)
    /\ UNCHANGED <<envVars, uiVars, authVars>>

\* the dialog on_reserve shows for the outcome of its request
ReserveDialog(res) ==
    IF res.kind = "raise"
    THEN IF res.exc = "FileNotFoundError"
         THEN Dialog("showerror", "Logic not found", {})
         ELSE Dialog("showerror", "Reservation error", {})
    ELSE IF res.resp.status = "ok"
    THEN Dialog("showinfo", "Reserved", {})
    ELSE Dialog("showwarning", "Reservation failed", res.resp.seats)

ReserveReturn ==
    /\ pc = "return"
    /\ handler = "on_reserve"
    /\ stage = "request"
    /\ dialogs' = Append(dialogs, ReserveDialog(result))
    /\ stage' = NextStage(result)
    /\ IF NextStage(result) = "done"
       THEN EndCall /\ UNCHANGED calls
       ELSE StartCall(GetLayoutPayload(rows, cols), calls)
    /\ UNCHANGED <<envVars, uiVars, handler, authVars>>

\* variant: every selected seat is sent
ReservedToDeleteUnfiltered(sel, res) == sel

\* the two lists on_delete splits the selection into
ReservedToDelete(sel, res) == {s \in sel : s \in res}

UnreservedSelected(sel, res) == {s \in sel : s \notin res}

on_delete ==
    /\ Begin("on_delete")
    /\ LET reserved_to_delete == ReservedToDelete(selected, reserved_set)
           unreserved_selected == UnreservedSelected(selected, reserved_set)
           skipped == IF unreserved_selected # {}
                      THEN <<Dialog("showwarning", "Some Seats Not Reserved",
                                    unreserved_selected)>>
                      ELSE <<>>
           local(ds) == /\ dialogs' = ds
                        /\ stage' = "done"
                        /\ calls' = <<>>
                        /\ UNCHANGED <<pc, callVars>>
       IN  IF selected = {}
           THEN local(<<Dialog("showinfo", "No selection", {})>>)
           ELSE IF reserved_to_delete = {}
           THEN IF unreserved_selected # {}
                THEN local(<<Dialog("showwarning", "No Reserved Seats Selected",
                                    unreserved_selected)>>)
                ELSE local(<<Dialog("showinfo", "No reserved seats", {})>>)
           ELSE \E confirm \in BOOLEAN :
                  IF ~confirm
                  THEN local(Append(skipped,
                           Dialog("askyesno", "Confirm Deletion", reserved_to_delete)))
                  ELSE /\ dialogs' = Append(skipped,
                              Dialog("askyesno", "Confirm Deletion", reserved_to_delete))
                       /\ stage' = "request"
                       /\ StartCall(DeletePayload(SortSeats(reserved_to_delete)), <<>>)
    /\ UNCHANGED <<envVars, uiVars, authVars>>

\* the dialog on_delete shows for the outcome of its request
DeleteDialog(res) ==
    IF res.kind = "raise"
    THEN IF res.exc = "FileNotFoundError"
         THEN Dialog("showerror", "Logic not found", {})
         ELSE Dialog("showerror", "Deletion error", {})
    ELSE IF res.resp.status = "ok"
    THEN Dialog("showinfo", "Deleted", {})
    ELSE Dialog("showerror", "Deletion failed", {})

DeleteReturn ==
    /\ pc = "return"
    /\ handler = "on_delete"
    /\ stage = "request"
    /\ dialogs' = Append(dialogs, DeleteDialog(result))
    /\ stage' = NextStage(result)
    /\ IF NextStage(result) = "done"
       THEN EndCall /\ UNCHANGED calls
       ELSE StartCall(GetLayoutPayload(rows, cols), calls)
    /\ UNCHANGED <<envVars, uiVars, handler, authVars>>

LIST_WINDOW_OVER == 10

on_list ==
    /\ Begin("on_list")
    /\ dialogs' = <<>>
    /\ stage' = "request"
    /\ StartCall(ListPayload, <<>>)
    /\ UNCHANGED <<envVars, uiVars, authVars>>

ListReturn ==
    /\ pc = "return"
    /\ handler = "on_list"
    /\ LET reservations == result.resp.seats
       IN  dialogs' = Append(dialogs,
              IF result.kind = "raise"
              THEN IF result.exc = "FileNotFoundError"
                   THEN Dialog("showerror", "Logic not found", {})
                   ELSE Dialog("showerror", "List error", {})
              ELSE IF result.resp.status # "ok"
              THEN Dialog("showerror", "List failed", {})
              ELSE IF reservations = {}
              THEN Dialog("showinfo", "Reservations", {})
              ELSE IF Cardinality(reservations) > LIST_WINDOW_OVER
              THEN Dialog("Toplevel", "All Reservations", reservations)
              ELSE Dialog("showinfo", "Reservations", reservations))
    /\ stage' = "done"
    /\ EndCall
    /\ UNCHANGED <<envVars, uiVars, handler, calls, authVars>>

\* other clients and the operator of the authority change what it holds
AuthorityChange ==
    /\ pc = "idle"
    /\ \E r \in 1..MaxRows, c \in 1..MaxCols :
         /\ authRows' = r
         /\ authCols' = c
         /\ authReserved' \in SUBSET Grid(r, c)
    /\ <<authRows', authCols', authReserved'>> # <<authRows, authCols, authReserved>>
    /\ UNCHANGED <<envVars, uiVars, pc, handler, stage, dialogs, callVars, calls>>

\* ------------------------------------------------------------ specification
\* CinemaUI.__init__ up to its call of refresh_layout
Init ==
    /\ logic_path \in LogicPaths
    /\ path_exists \in BOOLEAN
    /\ keepLog = FALSE
    /\ rows = DEFAULT_ROWS
    /\ cols = DEFAULT_COLS
    /\ buttons = {}
    /\ selected = {}
    /\ reserved_set = {}
    /\ handler = "__init__"
    /\ stage = "refresh"
    /\ dialogs = <<>>
    /\ payload = GetLayoutPayload(DEFAULT_ROWS, DEFAULT_COLS)
    /\ ci = 1
    /\ mode = "stdin"
    /\ last_err = <<>>
    /\ attempts = <<>>
    /\ children = {}
    /\ result = NoResult
    /\ calls = <<"get_layout">>
    /\ pc = "launch"
    /\ authRows \in 1..MaxRows
    /\ authCols \in 1..MaxCols
    /\ authReserved \in SUBSET Grid(authRows, authCols)

Next ==
    \/ Launch
    \/ Communicate
    \/ RefreshReturn
    \/ Toggle
    \/ clear_selection
    \/ RefreshButton
    \/ on_reserve
    \/ ReserveReturn
    \/ on_delete
    \/ DeleteReturn
    \/ on_list
    \/ ListReturn
    \/ AuthorityChange

Spec == Init /\ [][Next]_vars

\* call_logic on its own: entered by a handler with its request, run to its
\* return or raise, with the diagnostics and the attempts kept
\* the paths of a single call: also a file named just ".dll", which has no
\* suffix for pathlib, and an upper-case ".EXE"
CallPaths == LogicPaths \cup { <<".", "d", "l", "l">>, <<"a", ".", "E", "X", "E">> }

InitCall ==
    /\ logic_path \in CallPaths
    /\ path_exists \in BOOLEAN
    /\ keepLog = TRUE
    /\ rows = DEFAULT_ROWS
    /\ cols = DEFAULT_COLS
    /\ buttons = Grid(rows, cols)
    /\ authRows = DEFAULT_ROWS
    /\ authCols = DEFAULT_COLS
    /\ authReserved \in {{}, {<<1, 1>>}}
    /\ reserved_set = authReserved
    /\ selected = buttons
    /\ dialogs = <<>>
    /\ stage = "request"
    /\ \/ handler = "refresh_layout" /\ payload = GetLayoutPayload(rows, cols)
       \/ /\ handler = "on_reserve"
          /\ selected # {}
          /\ \E client \in Clients :
               payload = ReservePayload(SortSeats(ReserveSeats(selected, reserved_set)),
                                        client)
       \/ /\ handler = "on_delete"
          /\ ReservedToDelete(selected, reserved_set) # {}
          /\ payload = DeletePayload(SortSeats(ReservedToDelete(selected, reserved_set)))
       \/ handler = "on_list" /\ payload = ListPayload
    /\ calls = <<payload.action>>
    /\ ci = 1
    /\ mode = "stdin"
    /\ last_err = <<>>
    /\ attempts = <<>>
    /\ children = {}
    /\ result = NoResult
    /\ pc = "launch"

NextCall ==
    \/ Launch
    \/ Communicate

SpecCall == InitCall /\ [][NextCall]_vars

\* The resolver over many paths: the first call of call_logic (the
\* get_layout of __init__) for every path built from a stem and an ending,
\* the file existing or not.
PathStems == { <<>>, <<"a">>, <<"a", ".">>, <<"a", ".", "e", "x", "e">> }

PathEndings ==
    { <<>>, <<".">>, <<".", "d", "l">> }
    \cup { <<".", d, l1, l2>> : d \in {"d", "D"}, l1 \in {"l", "L"}, l2 \in {"l", "L"} }
    \cup { <<".", e1, x, e2>> : e1 \in {"e", "E"}, x \in {"x", "X"}, e2 \in {"e", "E"} }

ResolvePaths == { st \o en : st \in PathStems, en \in PathEndings } \ { <<>> }

InitResolve ==
    /\ logic_path \in ResolvePaths
    /\ path_exists \in BOOLEAN
    /\ keepLog = FALSE
    /\ rows = DEFAULT_ROWS
    /\ cols = DEFAULT_COLS
    /\ buttons = {}
    /\ selected = {}
    /\ reserved_set = {}
    /\ handler = "__init__"
    /\ stage = "refresh"
    /\ dialogs = <<>>
    /\ payload = GetLayoutPayload(DEFAULT_ROWS, DEFAULT_COLS)
    /\ ci = 1
    /\ mode = "stdin"
    /\ last_err = <<>>
    /\ attempts = <<>>
    /\ children = {}
    /\ result = NoResult
    /\ calls = <<"get_layout">>
    /\ pc = "launch"
    /\ authRows = DEFAULT_ROWS
    /\ authCols = DEFAULT_COLS
    /\ authReserved = {}

NextResolve ==
    \/ Launch
    \/ Communicate

SpecResolve == InitResolve /\ [][NextResolve]_vars

\* ------------------------------------------------------------ claims
\* the k-th attempt of a call, in the order candidate 1 stdin, candidate 1
\* argument, candidate 2 stdin, ...
OrderCand(k) == (k + 1) \div 2

OrderMode(k) == IF k % 2 = 1 THEN "stdin" ELSE "arg"

JsonOut(a) == a.outcome = "exited" /\ a.out = <<"{}", " ">>

GarbageOut(a) == a.outcome = "exited" /\ a.out = <<" ", "not json", " ">>

NoneUsable == \A k \in 1..Len(attempts) : ~JsonOut(attempts[k]) /\ ~GarbageOut(attempts[k])

\* C1: the attempts of a call are made in candidate order, stdin before
\* argument for each candidate, and an attempt whose output parses as JSON is
\* the last one: the call returns that response and launches nothing more.
C1_AttemptOrder ==
    /\ \A k \in 1..Len(attempts) :
          /\ k <= 2 * Len(Cands)
          /\ attempts[k].cand = OrderCand(k)
          /\ attempts[k].mode = OrderMode(k)
          /\ JsonOut(attempts[k]) =>
                /\ k = Len(attempts)
                /\ pc = "return"
                /\ result.kind = "return"
    /\ pc \in {"launch", "communicate"} =>
          /\ ci = OrderCand(Len(attempts) + 1)
          /\ mode = OrderMode(Len(attempts) + 1)
          /\ ci <= Len(Cands)

C1_Witness ==
    /\ pc = "return"
    /\ result.kind = "return"
    /\ Len(Cands) = 2
    /\ Len(attempts) = 3
    /\ JsonOut(attempts[3])

\* C2: an attempt whose output is non-empty after trimming and is not JSON
\* ends the call at once with an error naming the command and the raw output;
\* no later mode or candidate is tried.
C2_MalformedIsFatal ==
    \A k \in 1..Len(attempts) :
        GarbageOut(attempts[k]) =>
            /\ k = Len(attempts)
            /\ pc = "return"
            /\ result.kind = "raise"
            /\ result.exc = "RuntimeError: Failed to parse JSON"
            /\ result.raw = attempts[k].out
            /\ Len(result.lines) = 1
            /\ result.lines[1].cand = attempts[k].cand
            /\ result.lines[1].mode = attempts[k].mode

C2_Witness ==
    /\ pc = "return"
    /\ result.exc = "RuntimeError: Failed to parse JSON"
    /\ Len(Cands) = 2
    /\ Len(attempts) \in {1, 2}
    /\ GarbageOut(attempts[Len(attempts)])

LinePos(l) == 2 * (l.cand - 1) + (IF l.mode = "stdin" THEN 1 ELSE 2)

\* C3: when every attempt ends without usable output the call raises one
\* error holding all the diagnostic lines in the order of the attempts; when
\* every launch failed with "not found", each candidate has such a line.
C3_ExhaustedAggregates ==
    /\ (Len(attempts) = 2 * Len(Cands) /\ NoneUsable) =>
          /\ pc = "return"
          /\ result.kind = "raise"
          /\ result.exc = "RuntimeError: No valid response from logic program"
    /\ result.exc = "RuntimeError: No valid response from logic program" =>
          /\ Len(attempts) = 2 * Len(Cands)
          /\ NoneUsable
          /\ result.lines = last_err
          /\ \A i, j \in 1..Len(result.lines) :
                i < j => LinePos(result.lines[i]) <= LinePos(result.lines[j])
          /\ \A k \in 1..Len(attempts) :
                attempts[k].outcome = "notfound" =>
                    \E i \in 1..Len(result.lines) :
                        /\ result.lines[i].kind = "Command not found"
                        /\ LinePos(result.lines[i]) = k
          /\ (\A k \in 1..Len(attempts) : attempts[k].outcome = "notfound") =>
                \A c \in 1..Len(Cands) :
                    \E i \in 1..Len(result.lines) :
                        /\ result.lines[i].kind = "Command not found"
                        /\ result.lines[i].cand = c

C3_Witness ==
    /\ pc = "return"
    /\ result.exc = "RuntimeError: No valid response from logic program"
    /\ Len(Cands) = 2
    /\ \A k \in 1..Len(attempts) : attempts[k].outcome = "notfound"

Mutators == {"on_reserve", "on_delete"}

MutationOf(h) == IF h = "on_reserve" THEN "reserve" ELSE "delete_reservations"

HasDialog(ds, title) == \E i \in 1..Len(ds) : ds[i].title = title

InvocationFailed ==
    \/ HasDialog(dialogs, "Reservation error")
    \/ HasDialog(dialogs, "Deletion error")
    \/ HasDialog(dialogs, "Logic not found")

InducedRefreshRaises ==
    /\ pc = "return"
    /\ handler \in Mutators
    /\ stage \in {"refresh_ok", "refresh_failed"}
    /\ \/ result.kind = "raise"
       \/ result.resp.status # "ok"
       \/ result.resp.layout = "none"
       \/ result.resp.malformed

WarningDialog == Dialog("showwarning", "Warning", {})

RefreshCompletes ==
    /\ pc = "return"
    /\ stage \in {"refresh", "refresh_ok", "refresh_failed"}
    /\ result.kind = "return"
    /\ result.resp.status = "ok"
    /\ result.resp.layout # "none"
    /\ ~result.resp.malformed

\* C6: a refresh that completes leaves as reserved set exactly the seats the
\* new layout lists, and leaves no seat selected.
C6_RefreshReplaces ==
    [][RefreshCompletes =>
          /\ reserved_set' = result.resp.seats
          /\ selected' = {}]_vars

C6_Witness ==
    /\ pc = "idle"
    /\ handler = "on_delete"
    /\ HasDialog(dialogs, "Deleted")
    /\ ~HasDialog(dialogs, "Warning")
    /\ Len(calls) = 2
    /\ selected = {}
    /\ reserved_set = {}

\* C7: the request of on_delete holds exactly the selected seats that are in
\* reserved_set and is never empty; the selected seats that are not reserved
\* are shown to the operator; with no selected reserved seat on_delete ends
\* without a call.
C7_DeleteSendsReservedOnly ==
    /\ (handler = "on_delete" /\ stage = "request") =>
          /\ pc # "idle"
          /\ calls = <<"delete_reservations">>
          /\ payload.action = "delete_reservations"
          /\ Range(payload.seats) = selected \cap reserved_set
          /\ payload.seats # <<>>
          /\ (selected \ reserved_set # {}) =>
                \E i \in 1..Len(dialogs) :
                    /\ dialogs[i].title = "Some Seats Not Reserved"
                    /\ dialogs[i].seats = selected \ reserved_set
    /\ (handler = "on_delete" /\ calls # <<>>) => calls[1] = "delete_reservations"
    /\ (handler = "on_delete" /\ pc = "idle" /\ calls = <<>>
            /\ selected # {} /\ selected \cap reserved_set = {}) =>
          dialogs = <<Dialog("showwarning", "No Reserved Seats Selected", selected)>>

C7_Witness ==
    /\ handler = "on_delete"
    /\ stage = "request"
    /\ pc = "launch"
    /\ selected \ reserved_set # {}
    /\ selected \cap reserved_set # {}

\* C8: the request of on_reserve holds exactly the selected seats, reserved or
\* not, and is sent only with a non-empty selection; with an empty selection
\* on_reserve ends without a call.
C8_ReserveSendsSelection ==
    /\ (handler = "on_reserve" /\ stage = "request") =>
          /\ pc # "idle"
          /\ calls = <<"reserve">>
          /\ payload.action = "reserve"
          /\ selected # {}
          /\ Range(payload.seats) = selected
          /\ Len(payload.seats) = Cardinality(selected)
    /\ (handler = "on_reserve" /\ calls # <<>>) => calls[1] = "reserve"
    /\ (handler = "on_reserve" /\ pc = "idle" /\ calls = <<>>) =>
          /\ selected = {}
          /\ dialogs = <<Dialog("showinfo", "No selection", {})>>

C8_Witness ==
    /\ handler = "on_reserve"
    /\ stage = "request"
    /\ pc = "launch"
    /\ selected \cap reserved_set # {}

\* C9: reserved_set changes only in the step in which a refresh completes
\* with a layout from the authority, and then to the seats of that layout.
C9_ReservedOnlyByRefresh ==
    [][reserved_set' # reserved_set =>
          /\ RefreshCompletes
          /\ payload.action = "get_layout"
          /\ reserved_set' = result.resp.seats]_vars

C9_Witness ==
    /\ handler = "on_reserve"
    /\ stage = "refresh_ok"
    /\ pc = "launch"
    /\ \E s \in selected : s \in authReserved /\ s \notin reserved_set

ToggleStep == pc = "idle" /\ handler' = "toggle_select" /\ selected' # selected

\* C10: a toggle flips the selected status of one seat and of no other,
\* whether or not the seat is reserved, and toggling that seat again gives
\* back the selection there was before.
C10_ToggleInverse ==
    [][ToggleStep =>
          \E s \in buttons :
              /\ selected' \ {s} = selected \ {s}
              /\ (s \in selected') = (s \notin selected)
              /\ ToggleSet(selected', s) = selected
              /\ ToggleSet(ToggleSet(selected, s), s) = selected
              /\ reserved_set' = reserved_set]_vars

C10_Witness ==
    /\ handler = "toggle_select"
    /\ selected \cap reserved_set # {}
    /\ selected \ reserved_set # {}

\* C11: a refresh that completes is idempotent: a second refresh given the
\* same layout again (the authority unchanged in between) leaves the same
\* rows, cols, grid and reserved set, and the selection is empty after each.
C11_RefreshIdempotent ==
    [][\A res \in {result} :
          RefreshCompletes =>
             /\ selected' = {}
             /\ RefreshLayout(res)' =
                   [raised |-> FALSE, rows |-> rows', cols |-> cols',
                    buttons |-> buttons', reserved_set |-> reserved_set',
                    selected |-> {}]]_vars

C11_Witness ==
    /\ pc = "idle"
    /\ handler = "refresh_layout"
    /\ stage = "done"
    /\ reserved_set # {}
    /\ reserved_set = authReserved
    /\ cols = authCols
    /\ cols # DEFAULT_COLS

\* the text of the path ends in .dll, in any mix of upper and lower case
DllEnding(p) ==
    /\ Len(p) >= 4
    /\ p[Len(p) - 3] = "."
    /\ p[Len(p) - 2] \in {"d", "D"}
    /\ p[Len(p) - 1] \in {"l", "L"}
    /\ p[Len(p)] \in {"l", "L"}

\* C12: for a path ending in .dll (case-insensitive), existing or not, the
\* first two candidates are [dotnet, path] and [absolute dotnet, path], and
\* the bare [path] is no candidate.
C12_DllCandidates ==
    DllEnding(logic_path) =>
       /\ Len(Cands) >= 2
       /\ Cands[1] = <<DOTNET, logic_path>>
       /\ Cands[2] = <<DOTNET_ABS, logic_path>>
       /\ \A i \in 1..Len(Cands) : Cands[i] # <<logic_path>>

C12_Witness ==
    /\ DllEnding(logic_path)
    /\ logic_path # Lower(logic_path)
    /\ ~path_exists
    /\ pc = "communicate"
    /\ ci = 2
    /\ Cmd = <<DOTNET_ABS, logic_path>>

\* an attempt whose process was started: it timed out, its communicate failed
\* otherwise, or it exited
Launched(a) == a.outcome \in {"timeout", "broken", "exited"}

ChildOf(a) == <<a.cand, a.mode>>

HasLine(kind, a) ==
    \E i \in 1..Len(last_err) :
        /\ last_err[i].kind = kind
        /\ last_err[i].cand = a.cand
        /\ last_err[i].mode = a.mode

\* C13: during one call at most one child is alive; the child of an attempt
\* that timed out is killed and a timeout line recorded before anything else
\* is launched; no child is left when call_logic returns or raises.
C13_OneChildAtATime ==
    /\ Cardinality(children) <= 1
    /\ pc = "launch" => children = {}
    /\ pc = "return" => children = {}
    /\ \A k \in 1..Len(attempts) :
          attempts[k].outcome = "timeout" =>
             /\ ChildOf(attempts[k]) \notin children
             /\ HasLine("Timeout when running", attempts[k])

\* the child exited and its output is empty after trimming
EmptyOut(a) == a.outcome = "exited" /\ a.out \in {<<>>, <<" ">>}

\* the attempt gave no response
NoResponse(a) == ~JsonOut(a) /\ ~GarbageOut(a)

LinesOf(a) ==
    {i \in 1..Len(last_err) : last_err[i].cand = a.cand /\ last_err[i].mode = a.mode}

\* the call went on after its k-th attempt: to the next mode or candidate,
\* or, after the last one, to the aggregated error
WentOn(k) ==
    IF k < 2 * Len(Cands)
    THEN \/ k < Len(attempts)
         \/ pc \in {"launch", "communicate"} /\ ci = OrderCand(k + 1) /\ mode = OrderMode(k + 1)
    ELSE /\ pc = "return"
         /\ result.exc = "RuntimeError: No valid response from logic program"

\* C14: an attempt with empty output never ends the call: the next mode or
\* candidate is tried (after the last one the aggregated error is raised), and
\* every attempt that gave no response has at least one line in the
\* diagnostics.
C14_EveryAttemptRecorded ==
    \A k \in 1..Len(attempts) :
        /\ EmptyOut(attempts[k]) => WentOn(k)
        /\ NoResponse(attempts[k]) => LinesOf(attempts[k]) # {}

\* C15: what a child writes to its standard error never decides the outcome:
\* it becomes a diagnostic line; with output that parses the attempt still
\* returns the response, with empty output the call goes on to the next mode
\* or candidate.
C15_StderrIsDiagnosticOnly ==
    \A k \in 1..Len(attempts) :
        (attempts[k].outcome = "exited" /\ attempts[k].stderr) =>
            /\ HasLine("produced stderr", attempts[k])
            /\ JsonOut(attempts[k]) =>
                  /\ k = Len(attempts)
                  /\ pc = "return"
                  /\ result.kind = "return"
            /\ EmptyOut(attempts[k]) => WentOn(k)

C15_Witness ==
    /\ pc = "return"
    /\ result.kind = "return"
    /\ result.resp.status = "ok"
    /\ Len(attempts) = 2
    /\ EmptyOut(attempts[1]) /\ attempts[1].stderr
    /\ JsonOut(attempts[2]) /\ attempts[2].stderr
    /\ Len(last_err) = 2

\* C16: when on_reserve or on_delete ends without a response of the authority
\* (nothing selected, no reserved seat selected, the confirmation declined, or
\* call_logic raised), it ends there, and selected, reserved_set, rows and
\* cols are what they were before the action.
C16_NoResponseNoChange ==
    [][/\ (handler' \in Mutators /\ stage' \in {"request", "done"}
              /\ stage \notin {"refresh_ok", "refresh_failed"}) =>
             UNCHANGED <<selected, reserved_set, rows, cols>>
       /\ (pc = "return" /\ handler \in Mutators /\ stage = "request"
              /\ result.kind = "raise") =>
             /\ pc' = "idle"
             /\ stage' = "done"
             /\ UNCHANGED <<selected, reserved_set, rows, cols>>]_vars

C16_Witness ==
    /\ pc = "idle"
    /\ handler = "on_delete"
    /\ stage = "done"
    /\ HasDialog(dialogs, "Deletion error")
    /\ calls = <<"delete_reservations">>
    /\ selected # {}
    /\ reserved_set # {}

\* C17: refresh_layout is all or nothing: either it completes, and rows, cols,
\* the reserved set and the emptied selection are the new ones, or it raises
\* (call_logic raised, status not "ok", no layout, a malformed reserved entry)
\* and rows, cols, the reserved set and the selection are all as before.
C17_RefreshAllOrNothing ==
    [][(pc = "return" /\ stage \in {"refresh", "refresh_ok", "refresh_failed"}) =>
          IF RefreshCompletes
          THEN /\ rows' = (IF result.resp.layout = "dims" THEN result.resp.rows ELSE rows)
               /\ cols' = (IF result.resp.layout = "dims" THEN result.resp.cols ELSE cols)
               /\ reserved_set' = result.resp.seats
               /\ selected' = {}
          ELSE UNCHANGED <<rows, cols, reserved_set, selected>>]_vars

\* C18: every selected seat lies inside the current grid, also after a refresh
\* that changes the dimensions or fails part-way.
C18_SelectionInsideGrid ==
    \A s \in selected : s[1] \in 1..rows /\ s[2] \in 1..cols

\* the attempts of the call whose process was started: each was handed the
\* payload, on its standard input or as its last argument
Deliveries == {k \in 1..Len(attempts) : Launched(attempts[k])}

IsMutation == payload.action \in {"reserve", "delete_reservations"}

\* C19, as claimed: the request of one reserve or delete action is handed to
\* at most one launched process.
C19_DeliveredAtMostOnce ==
    IsMutation => Cardinality(Deliveries) <= 1

\* C19: the request of one reserve or delete action is handed to every
\* process call_logic launches until one writes non-empty output: again to
\* the other mode and the later candidates after a launched process timed
\* out, failed or wrote nothing, at most once for each candidate and mode
\* (two per candidate), and to no process after one wrote non-empty output.
C19_DeliveredOncePerAttempt ==
    IsMutation =>
       /\ \A j, k \in Deliveries : j # k => ChildOf(attempts[j]) # ChildOf(attempts[k])
       /\ Cardinality(Deliveries) <= 2 * Len(Cands)
       /\ \A k \in Deliveries :
             ~NoResponse(attempts[k]) => k = Len(attempts) /\ pc = "return"

C19_Witness ==
    /\ pc = "return"
    /\ payload.action = "reserve"
    /\ Len(attempts) = 2
    /\ attempts[1].outcome = "timeout"
    /\ JsonOut(attempts[2])
    /\ Deliveries = {1, 2}
    /\ result.resp.status = "error"
    /\ Range(payload.seats) \subseteq authReserved

\* the text of the path ends in .exe, in any mix of upper and lower case
ExeEnding(p) ==
    /\ Len(p) >= 4
    /\ p[Len(p) - 3] = "."
    /\ p[Len(p) - 2] \in {"e", "E"}
    /\ p[Len(p) - 1] \in {"x", "X"}
    /\ p[Len(p)] \in {"e", "E"}

\* C20: the resolver yields one or two candidates ([path] alone only for an
\* existing .exe, two otherwise), so a call makes at least one and at most
\* four attempts; while it has not returned or raised, an attempt can always
\* finish, and every step either starts the child of the current attempt or
\* ends an attempt, so the call ends by returning a response or raising.
C20_CallTerminates ==
    /\ [](/\ Len(Cands) \in {1, 2}
          /\ Len(Cands) = 1 =>
                path_exists /\ ExeEnding(logic_path) /\ Cands = << <<logic_path>> >>
          /\ Len(attempts) <= 2 * Len(Cands)
          /\ Len(attempts) <= 4
          /\ pc \in {"launch", "communicate"} =>
                /\ Len(attempts) < 2 * Len(Cands)
                /\ ENABLED NextCall
          /\ pc = "return" =>
                /\ Len(attempts) >= 1
                /\ result.kind \in {"return", "raise"})
    /\ [][\/ pc = "launch" /\ pc' = "communicate" /\ attempts' = attempts
          \/ Len(attempts') = Len(attempts) + 1 /\ pc' \in {"launch", "return"}]_vars

C20_Witness ==
    /\ pc = "return"
    /\ result.kind = "raise"
    /\ Len(Cands) = 1
    /\ Len(attempts) = 2
    /\ attempts[1].outcome = "timeout"
    /\ attempts[2].outcome = "timeout"

====
